---- MODULE Spec2Model ----
(***************************************************************************)
(* Model of homeassistant/components/cast/helpers.py:                      *)
(*   - CastStatusListener (construction, callback handlers, invalidate)    *)
(*     together with the multizone manager it registers with,              *)
(*   - ChromecastInfo.fill_out_missing_chromecast_info,                    *)
(*   - parse_m3u and parse_pls.                                            *)
(* Each part has its own specification (Spec, SpecFill, SpecM3U, SpecPLS); *)
(* the variables of the other parts stay at their idle values.             *)
(***************************************************************************)
EXTENDS Integers, Sequences, FiniteSets, TLC

(***************************************************************************)
(* Bounds of the listener model.                                           *)
(***************************************************************************)
MaxListeners == 2
\* Callbacks and invalidate() calls started in one behaviour.
MaxCalls == 3

Listeners == 1..MaxListeners
NoListener == 0

\* The logical devices: one audio group and one standard receiver.  A device
\* is named by its uuid.
Devices == {"group", "speaker"}
NoDevice == "none"
NoGroup == "none"

\* The three callback streams of a chromecast connection (lines 120-122).
Streams == {"cast_status", "media_status", "connection_status"}
\* Opaque status payloads; "None" is Python's None.
Statuses == {"s1", "s2"}
NoStatus == "None"

VARIABLES
    made,          \* listeners constructed so far
    cast_device,   \* l -> self._cast_device (NoDevice before construction)
    mz_only,       \* l -> the mz_only argument of __init__
    valid,         \* l -> self._valid
    groups,        \* mz_mgr: group uuid -> chromecast added as multizone
    casts,         \* mz_mgr: member uuid -> registered listeners
    subs,          \* chromecast of l -> streams listener l is subscribed to
    cb,            \* l -> the callback in flight on l
    inv,           \* l -> progress and history of invalidate() on l
    last_return,   \* the callback that returned last, and how
    last_call,     \* the last call made on a logical device handle
    ncalled,       \* d -> number of calls made on device handle d
    ncalls,        \* callbacks and invalidate() calls started so far
    regs,          \* l -> registrations __init__ issued to mz_mgr
    deregs,        \* l -> deregistrations invalidate() issued to mz_mgr
    mzBefore,      \* l -> <<groups, casts>> just before __init__
    mzAfter        \* l -> <<groups, casts>> just after __init__

lvars == <<made, cast_device, mz_only, valid, groups, casts, subs, cb, inv,
           last_return, last_call, ncalled, ncalls, regs, deregs, mzBefore,
           mzAfter>>

(***************************************************************************)
(* State of the model of fill_out_missing_chromecast_info.                 *)
(***************************************************************************)
VARIABLES
    fill_pc,       \* "off", "start", "once" (one call made), "twice"
    fill_self,     \* the descriptor the first call is made on
    fill_dial,     \* what dial.get_cast_type answers
    fill_status,   \* what dial.get_multizone_status answers
    fill_r1,       \* the outcome of fill_self.fill_out_missing_chromecast_info()
    fill_r2        \* the outcome of the same call on the first call's result

fvars == <<fill_pc, fill_self, fill_dial, fill_status, fill_r1, fill_r2>>

(***************************************************************************)
(* State of the model of parse_m3u.                                        *)
(***************************************************************************)
VARIABLES
    m3u_pc,        \* "off", "fetch", "split", "loop", "done", "error"
    m3u_data,      \* the text _fetch_playlist returns
    m3u_lines,     \* m3u_data.splitlines()
    m3u_i,         \* index of the line the for loop takes next
    m3u_playlist,  \* playlist
    m3u_length,    \* length
    m3u_title,     \* title
    m3u_error      \* the exception parse_m3u ended with, or "none"

mvars == <<m3u_pc, m3u_data, m3u_lines, m3u_i, m3u_playlist, m3u_length,
           m3u_title, m3u_error>>

(***************************************************************************)
(* State of the model of parse_pls.                                        *)
(***************************************************************************)
VARIABLES
    pls_pc,        \* "off", "fetch", "read", "version", "entries", "loop",
                   \* "done", "error"
    pls_file,      \* the playlist file _fetch_playlist returns
    pls_parser,    \* pls_parser after read_string
    pls_num,       \* num_entries
    pls_entry,     \* entry, the loop variable
    pls_playlist,  \* playlist
    pls_error      \* the exception parse_pls ended with, or "none"

pvars == <<pls_pc, pls_file, pls_parser, pls_num, pls_entry, pls_playlist,
           pls_error>>

vars == <<lvars, fvars, mvars, pvars>>

\* cast_device._cast_info.is_audio_group
IsAudioGroup(d) == d = "group"

\* chromecast.uuid of a connection to device d.
Uuid(d) == d

\* The uuids the multizone manager reports group events for.
GroupUuids == {Uuid(d) : d \in {x \in Devices : IsAudioGroup(x)}}

IdleCallback ==
    [pc |-> "idle", handler |-> "none", fwd |-> "none", group |-> NoGroup,
     status |-> NoStatus, late |-> FALSE]

IdleInvalidate == [pc |-> "idle", returned |-> 0]

NoReturn == [listener |-> NoListener, late |-> FALSE, result |-> "none"]

NoCall ==
    [listener |-> NoListener, device |-> NoDevice, fwd |-> "none",
     group |-> NoGroup, status |-> NoStatus, late |-> FALSE,
     afterInvalidate |-> FALSE]

EmptyMz == <<[u \in Devices |-> NoListener], [u \in Devices |-> {}]>>

InitListener ==
    /\ made = {}
    /\ cast_device = [l \in Listeners |-> NoDevice]
    /\ mz_only = [l \in Listeners |-> FALSE]
    /\ valid = [l \in Listeners |-> FALSE]
    /\ groups = [u \in Devices |-> NoListener]
    /\ casts = [u \in Devices |-> {}]
    /\ subs = [l \in Listeners |-> {}]
    /\ cb = [l \in Listeners |-> IdleCallback]
    /\ inv = [l \in Listeners |-> IdleInvalidate]
    /\ last_return = NoReturn
    /\ last_call = NoCall
    /\ ncalled = [d \in Devices |-> 0]
    /\ ncalls = 0
    /\ regs = [l \in Listeners |-> {}]
    /\ deregs = [l \in Listeners |-> {}]
    /\ mzBefore = [l \in Listeners |-> EmptyMz]
    /\ mzAfter = [l \in Listeners |-> EmptyMz]

(***************************************************************************)
(* The multizone manager (pychromecast's MultizoneManager, reached through *)
(* self._mz_mgr).                                                          *)
(***************************************************************************)
\* self._mz_mgr.add_multizone(chromecast)
add_multizone(g, l) == [g EXCEPT ![Uuid(cast_device'[l])] = l]

\* self._mz_mgr.remove_multizone(self._uuid)
remove_multizone(g, u) == [g EXCEPT ![u] = NoListener]

\* self._mz_mgr.register_listener(chromecast.uuid, self)
register_listener(c, u, l) == [c EXCEPT ![u] = @ \cup {l}]

\* self._mz_mgr.deregister_listener(self._uuid, self)
deregister_listener(c, u, l) == [c EXCEPT ![u] = @ \ {l}]

(***************************************************************************)
(* CastStatusListener.__init__                                             *)
(***************************************************************************)
\* An __init__ without the early return for mz_only before the registration.
InitRegisters_IgnoreMzOnly(d, mzo) ==
    IF IsAudioGroup(d) THEN {"multizone"} ELSE {"listener"}

\* What __init__ registers with the multizone manager.
InitRegisters(d, mzo) ==
    (IF IsAudioGroup(d) THEN {"multizone"} ELSE {})
    \cup (IF ~mzo /\ ~IsAudioGroup(d) THEN {"listener"} ELSE {})

\* An __init__ that subscribes only the listeners of non-group devices.
InitSubscribes_NonGroupOnly(d, mzo) ==
    IF mzo \/ IsAudioGroup(d) THEN {} ELSE Streams

\* The streams __init__ subscribes the listener to.
InitSubscribes(d, mzo) == IF mzo THEN {} ELSE Streams

ListenerInit(l, d, mzo) ==
    /\ l \notin made
    /\ l = Cardinality(made) + 1
    /\ made' = made \cup {l}
    /\ cast_device' = [cast_device EXCEPT ![l] = d]
    /\ mz_only' = [mz_only EXCEPT ![l] = mzo]
    /\ valid' = [valid EXCEPT ![l] = TRUE]
    /\ groups' = IF "multizone" \in InitRegisters(d, mzo)
                 THEN add_multizone(groups, l) ELSE groups
    /\ subs' = [subs EXCEPT ![l] = InitSubscribes(d, mzo)]
    /\ casts' = IF "listener" \in InitRegisters(d, mzo)
                THEN register_listener(casts, Uuid(d), l) ELSE casts
    /\ regs' = [regs EXCEPT ![l] = InitRegisters(d, mzo)]
    /\ mzBefore' = [mzBefore EXCEPT ![l] = <<groups, casts>>]
    /\ mzAfter' = [mzAfter EXCEPT ![l] = <<groups', casts'>>]
    /\ UNCHANGED <<cb, inv, last_return, last_call, ncalled, ncalls, deregs>>
    /\ UNCHANGED <<fvars, mvars, pvars>>

(***************************************************************************)
(* The callback handlers.  Each reads self._valid and then, as a separate  *)
(* step, calls the logical device handle: nothing in the class makes the   *)
(* two steps atomic.                                                       *)
(***************************************************************************)
\* A handler that forwards without looking at self._valid.
ValidCheck_Skipped(l) == TRUE

\* if self._valid:
ValidCheck(l) == valid[l]

\* The connection (for the three streams) or the multizone manager (for the
\* group callbacks) delivers handler h to listener l.
Delivers(l, h) ==
    IF h \in {"multizone_new_media_status", "removed_from_multizone"}
    THEN "listener" \in regs[l]
    ELSE subs[l] # {}

\* Handler h is entered on listener l: the test of self._valid.  With the flag
\* set the handler goes on to the forward f(g, s); otherwise it returns.
Handle(l, h, f, g, s) ==
    /\ l \in made
    /\ cb[l].pc = "idle"
    /\ ncalls < MaxCalls
    /\ Delivers(l, h)
    /\ ncalls' = ncalls + 1
    /\ IF ValidCheck(l)
       THEN /\ cb' = [cb EXCEPT ![l] =
                       [pc |-> "forward", handler |-> h, fwd |-> f,
                        group |-> g, status |-> s,
                        late |-> inv[l].returned > 0]]
            /\ last_return' = last_return
       ELSE /\ cb' = cb
            /\ last_return' = [listener |-> l, late |-> inv[l].returned > 0,
                               result |-> "dropped"]
    /\ UNCHANGED <<made, cast_device, mz_only, valid, groups, casts, subs, inv,
                   last_call, ncalled, regs, deregs, mzBefore, mzAfter>>
    /\ UNCHANGED <<fvars, mvars, pvars>>

new_cast_status(l, cast_status) ==
    Handle(l, "new_cast_status", "new_cast_status", NoGroup, cast_status)

new_media_status(l, media_status) ==
    Handle(l, "new_media_status", "new_media_status", NoGroup, media_status)

new_connection_status(l, connection_status) ==
    Handle(l, "new_connection_status", "new_connection_status", NoGroup,
           connection_status)

\* A removed_from_multizone that hands the event on under its own name.
removed_from_multizone_SameName(l, group_uuid) ==
    Handle(l, "removed_from_multizone", "removed_from_multizone",
           group_uuid, NoStatus)

removed_from_multizone(l, group_uuid) ==
    Handle(l, "removed_from_multizone", "multizone_new_media_status",
           group_uuid, NoStatus)

multizone_new_media_status(l, group_uuid, media_status) ==
    Handle(l, "multizone_new_media_status", "multizone_new_media_status",
           group_uuid, media_status)

\* self._cast_device.<fwd>(...): the call on the logical device handle.
Forward(l) ==
    /\ cb[l].pc = "forward"
    /\ last_call' =
          [listener |-> l, device |-> cast_device[l], fwd |-> cb[l].fwd,
           group |-> cb[l].group, status |-> cb[l].status,
           late |-> cb[l].late, afterInvalidate |-> inv[l].returned > 0]
    /\ ncalled' = [ncalled EXCEPT ![cast_device[l]] = @ + 1]
    /\ last_return' = [listener |-> l, late |-> cb[l].late,
                       result |-> "forwarded"]
    /\ cb' = [cb EXCEPT ![l] = IdleCallback]
    /\ UNCHANGED <<made, cast_device, mz_only, valid, groups, casts, subs, inv,
                   ncalls, regs, deregs, mzBefore, mzAfter>>
    /\ UNCHANGED <<fvars, mvars, pvars>>

(***************************************************************************)
(* CastStatusListener.invalidate: the deregistration (lines 164-167), then *)
(* self._valid = False (line 168).                                         *)
(***************************************************************************)
\* Which deregistration invalidate() issues.
InvalidateIssues(l) ==
    IF IsAudioGroup(cast_device[l]) THEN "multizone" ELSE "listener"

InvalidateDeregister(l) ==
    /\ l \in made
    /\ inv[l].pc = "idle"
    /\ ncalls < MaxCalls
    /\ ncalls' = ncalls + 1
    /\ deregs' = [deregs EXCEPT ![l] = @ \cup {InvalidateIssues(l)}]
    /\ IF InvalidateIssues(l) = "multizone"
       THEN /\ groups' = remove_multizone(groups, Uuid(cast_device[l]))
            /\ casts' = casts
            /\ inv' = [inv EXCEPT ![l].pc = "flag"]
       ELSE /\ groups' = groups
            /\ casts' = deregister_listener(casts, Uuid(cast_device[l]), l)
            /\ \/ inv' = [inv EXCEPT ![l].pc = "flag"]
               \* the manager does not know the listener: it may raise, and
               \* invalidate() then ends before line 168
               \/ /\ l \notin casts[Uuid(cast_device[l])]
                  /\ inv' = inv
    /\ UNCHANGED <<made, cast_device, mz_only, valid, subs, cb, last_return,
                   last_call, ncalled, regs, mzBefore, mzAfter>>
    /\ UNCHANGED <<fvars, mvars, pvars>>

\* An invalidate() that flips self._valid instead of clearing it.
InvalidateSetFlag_Toggle(l) ==
    /\ inv[l].pc = "flag"
    /\ valid' = [valid EXCEPT ![l] = ~@]
    /\ inv' = [inv EXCEPT ![l].pc = "idle", ![l].returned = @ + 1]
    /\ UNCHANGED <<made, cast_device, mz_only, groups, casts, subs, cb,
                   last_return, last_call, ncalled, ncalls, regs, deregs,
                   mzBefore, mzAfter>>
    /\ UNCHANGED <<fvars, mvars, pvars>>

\* self._valid = False, and invalidate() returns.
InvalidateSetFlag(l) ==
    /\ inv[l].pc = "flag"
    /\ valid' = [valid EXCEPT ![l] = FALSE]
    /\ inv' = [inv EXCEPT ![l].pc = "idle", ![l].returned = @ + 1]
    /\ UNCHANGED <<made, cast_device, mz_only, groups, casts, subs, cb,
                   last_return, last_call, ncalled, ncalls, regs, deregs,
                   mzBefore, mzAfter>>
    /\ UNCHANGED <<fvars, mvars, pvars>>

NextListener ==
    \/ \E l \in Listeners, d \in Devices, mzo \in BOOLEAN : ListenerInit(l, d, mzo)
    \/ \E l \in Listeners, s \in Statuses : new_cast_status(l, s)
    \/ \E l \in Listeners, s \in Statuses : new_media_status(l, s)
    \/ \E l \in Listeners, s \in Statuses : new_connection_status(l, s)
    \/ \E l \in Listeners, g \in GroupUuids : removed_from_multizone(l, g)
    \/ \E l \in Listeners, g \in GroupUuids, s \in Statuses :
          multizone_new_media_status(l, g, s)
    \/ \E l \in Listeners : Forward(l)
    \/ \E l \in Listeners : InvalidateDeregister(l)
    \/ \E l \in Listeners : InvalidateSetFlag(l)

(***************************************************************************)
(* ChromecastInfo.fill_out_missing_chromecast_info                         *)
(***************************************************************************)
\* Python's None, True and False as values of is_dynamic_group and of the
\* optional fields of CastInfo.
PyNone == "None"
PyTrue == "True"
PyFalse == "False"

\* pychromecast.const.CAST_TYPE_GROUP
CAST_TYPE_GROUP == "group"

CastTypes == {CAST_TYPE_GROUP, "cast", "audio"}
Manufacturers == {"Google Inc."}
FillUuids == {"u1", "u2"}

\* ChromecastInfo: the fields of cast_info the method reads, and is_dynamic_group.
ChromecastInfos ==
    [cast_type : CastTypes \cup {PyNone},
     manufacturer : Manufacturers \cup {PyNone},
     uuid : FillUuids,
     is_dynamic_group : {PyNone, PyTrue, PyFalse}]

\* The answers of dial.get_cast_type: the CastInfo with its type and
\* manufacturer set.
DialAnswers == [cast_type : CastTypes, manufacturer : Manufacturers]

\* The answers of dial.get_multizone_status: None, or a status listing the
\* uuids of the dynamic groups.
StatusAnswers ==
    {[present |-> FALSE, dynamic_groups |-> {}]}
    \cup {[present |-> TRUE, dynamic_groups |-> g] : g \in SUBSET FillUuids}

\* ChromecastInfo.is_audio_group
is_audio_group(info) == info.cast_type = CAST_TYPE_GROUP

\* Lines 53-59: the cast_info the result is built from.
FilledCastInfo(self, dial) ==
    IF self.cast_type = PyNone \/ self.manufacturer = PyNone
    THEN [cast_type |-> dial.cast_type, manufacturer |-> dial.manufacturer,
          uuid |-> self.uuid]
    ELSE [cast_type |-> self.cast_type, manufacturer |-> self.manufacturer,
          uuid |-> self.uuid]

\* A test that leaves out "not self.is_audio_group".
HasAllInformation_KnownOnly(self) == self.is_dynamic_group # PyNone

\* Line 61: the test that ends the method without a group-status query.
HasAllInformation(self) ==
    ~is_audio_group(self) \/ self.is_dynamic_group # PyNone

\* An is_dynamic_group that is True as soon as the answer lists any dynamic
\* group.
GroupStatus_AnyGroup(self, status) ==
    IF status.present /\ status.dynamic_groups # {}
    THEN PyTrue ELSE PyFalse

\* Lines 66-76: is_dynamic_group from the answer of get_multizone_status.
GroupStatus(self, status) ==
    IF status.present /\ self.uuid \in status.dynamic_groups
    THEN PyTrue ELSE PyFalse

\* The method: the descriptor it returns and the queries it issued.
fill_out_missing_chromecast_info(self, dial, status) ==
    LET cast_info == FilledCastInfo(self, dial)
        dial_query == self.cast_type = PyNone \/ self.manufacturer = PyNone
    IN  IF HasAllInformation(self)
        THEN [info |-> [cast_type |-> cast_info.cast_type,
                        manufacturer |-> cast_info.manufacturer,
                        uuid |-> cast_info.uuid,
                        is_dynamic_group |-> PyNone],
              dial_query |-> dial_query, group_query |-> FALSE]
        ELSE [info |-> [cast_type |-> cast_info.cast_type,
                        manufacturer |-> cast_info.manufacturer,
                        uuid |-> cast_info.uuid,
                        is_dynamic_group |-> GroupStatus(self, status)],
              dial_query |-> dial_query, group_query |-> TRUE]

NoInfo ==
    [cast_type |-> PyNone, manufacturer |-> PyNone, uuid |-> "u1",
     is_dynamic_group |-> PyNone]

NoOutcome == [info |-> NoInfo, dial_query |-> FALSE, group_query |-> FALSE]

FillOff ==
    /\ fill_pc = "off"
    /\ fill_self = NoInfo
    /\ fill_dial = [cast_type |-> "cast", manufacturer |-> "Google Inc."]
    /\ fill_status = [present |-> FALSE, dynamic_groups |-> {}]
    /\ fill_r1 = NoOutcome
    /\ fill_r2 = NoOutcome

InitFill ==
    /\ fill_pc = "start"
    /\ fill_self \in ChromecastInfos
    /\ fill_dial \in DialAnswers
    /\ fill_status \in StatusAnswers
    /\ fill_r1 = NoOutcome
    /\ fill_r2 = NoOutcome

\* info.fill_out_missing_chromecast_info() on the descriptor given.
FillFirst ==
    /\ fill_pc = "start"
    /\ fill_r1' = fill_out_missing_chromecast_info(fill_self, fill_dial, fill_status)
    /\ fill_pc' = "once"
    /\ UNCHANGED <<fill_self, fill_dial, fill_status, fill_r2>>
    /\ UNCHANGED <<lvars, mvars, pvars>>

\* The same call on the descriptor the first call returned.
FillSecond ==
    /\ fill_pc = "once"
    /\ fill_r2' = fill_out_missing_chromecast_info(fill_r1.info, fill_dial, fill_status)
    /\ fill_pc' = "twice"
    /\ UNCHANGED <<fill_self, fill_dial, fill_status, fill_r1>>
    /\ UNCHANGED <<lvars, mvars, pvars>>

NextFill ==
    \/ FillFirst
    \/ FillSecond

(***************************************************************************)
(* Strings are sequences of one-character strings; the operators below are *)
(* the str methods the parsers use.                                        *)
(***************************************************************************)
MinOf(S) == CHOOSE x \in S : \A y \in S : x <= y

\* Characters str.strip() removes.
IsSpace(c) == c \in {" ", "\t", "\n"}

RECURSIVE LStrip(_)
LStrip(s) == IF s # <<>> /\ IsSpace(Head(s)) THEN LStrip(Tail(s)) ELSE s

RECURSIVE RStrip(_)
RStrip(s) ==
    IF s # <<>> /\ IsSpace(s[Len(s)])
    THEN RStrip(SubSeq(s, 1, Len(s) - 1)) ELSE s

\* s.strip()
Strip(s) == RStrip(LStrip(s))

\* s.startswith(p)
StartsWith(s, p) == Len(s) >= Len(p) /\ SubSeq(s, 1, Len(p)) = p

\* s.find(p) + 1: the place of the first occurrence of p in s, 0 when none.
Find(s, p) ==
    LET hits == {i \in 1..(Len(s) - Len(p) + 1) : SubSeq(s, i, i + Len(p) - 1) = p}
    IN  IF hits = {} THEN 0 ELSE MinOf(hits)

\* s.split(p)
RECURSIVE Split(_, _)
Split(s, p) ==
    LET i == Find(s, p)
    IN  IF i = 0 THEN <<s>>
        ELSE <<SubSeq(s, 1, i - 1)>> \o Split(SubSeq(s, i + Len(p), Len(s)), p)

\* s.split(p, 1)
Split1(s, p) ==
    LET i == Find(s, p)
    IN  IF i = 0 THEN <<s>>
        ELSE <<SubSeq(s, 1, i - 1), SubSeq(s, i + Len(p), Len(s))>>

\* s.splitlines(), for texts whose only line boundary is "\n".
RECURSIVE SplitLines(_)
SplitLines(t) ==
    LET i == Find(t, <<"\n">>)
    IN  IF t = <<>> THEN <<>>
        ELSE IF i = 0 THEN <<t>>
        ELSE <<SubSeq(t, 1, i - 1)>> \o SplitLines(SubSeq(t, i + 1, Len(t)))

\* "\n".join(ls)
RECURSIVE JoinLines(_)
JoinLines(ls) ==
    IF ls = <<>> THEN <<>>
    ELSE IF Len(ls) = 1 THEN ls[1]
    ELSE ls[1] \o <<"\n">> \o JoinLines(Tail(ls))

\* Python objects held by a PlaylistItem: None, a str, a list of str.
NoneObj == [type |-> "NoneType", val |-> <<>>]
StrObj(s) == [type |-> "str", val |-> <<s>>]
ListObj(xs) == [type |-> "list", val |-> xs]

(***************************************************************************)
(* parse_m3u                                                               *)
(***************************************************************************)
\* Lines a playlist is made of in the model.
MaxLines == 3

\* '#EXTINF:123 extra,My Title'
LineExtinfExtra ==
    <<"#", "E", "X", "T", "I", "N", "F", ":", "1", "2", "3", " ", "e", "x",
      "t", "r", "a", ",", "M", "y", " ", "T", "i", "t", "l", "e">>

\* '#EXTINF:-1, Radio ,FM'
LineExtinfPlain ==
    <<"#", "E", "X", "T", "I", "N", "F", ":", "-", "1", ",", " ", "R", "a",
      "d", "i", "o", " ", ",", "F", "M">>

\* '#EXTINF:9'
LineExtinfNoComma ==
    <<"#", "E", "X", "T", "I", "N", "F", ":", "9">>

\* '#EXTM3U'
LineComment ==
    <<"#", "E", "X", "T", "M", "3", "U">>

\* 'http://a/b'
LineUrl ==
    <<"h", "t", "t", "p", ":", "/", "/", "a", "/", "b">>

\* ' http://c '
LineUrlPadded ==
    <<" ", "h", "t", "t", "p", ":", "/", "/", "c", " ">>

\* ''
LineBlank ==
    <<>>

\* '  '
LineSpaces ==
    <<" ", " ">>

SampleLines ==
    {LineExtinfExtra, LineExtinfPlain, LineExtinfNoComma, LineComment,
     LineUrl, LineUrlPadded, LineBlank, LineSpaces}

RECURSIVE SeqsUpTo(_, _)
SeqsUpTo(S, n) ==
    IF n = 0 THEN {<<>>}
    ELSE LET shorter == SeqsUpTo(S, n - 1)
         IN  shorter \cup {Append(q, x) : q \in {r \in shorter : Len(r) = n - 1}, x \in S}

\* The texts a fetch may return: up to MaxLines lines, with or without a
\* newline at the end.
Texts ==
    {JoinLines(ls) \o e : ls \in SeqsUpTo(SampleLines, MaxLines),
                          e \in {<<>>, <<"\n">>}}

\* "#EXTINF:"
ExtinfMarker == <<"#", "E", "X", "T", "I", "N", "F", ":">>

\* An #EXTINF line that raises instead of being skipped when it has no comma.
extinf_update_Strict(st, line) ==
    LET info == Split1(Split(line, ExtinfMarker)[2], <<",">>)
    IN  IF Len(info) # 2
        THEN [st EXCEPT !.error = "ValueError"]
        ELSE [st EXCEPT !.length = ListObj(Split1(info[1], <<" ">>)),
                        !.title = StrObj(Strip(info[2]))]

\* Lines 217-223: the stripped line starts with "#EXTINF:".
extinf_update(st, line) ==
    LET parts == Split(line, ExtinfMarker)
    IN  IF Len(parts) < 2
        THEN [st EXCEPT !.error = "IndexError"]
        ELSE LET info == Split1(parts[2], <<",">>)
             IN  IF Len(info) # 2
                 THEN st
                 ELSE [st EXCEPT
                         !.length = ListObj(Split1(info[1], <<" ">>)),
                         !.title = StrObj(Strip(info[2]))]

\* An append that leaves length and title as they are.
append_item_NoReset(st, line) ==
    [st EXCEPT !.playlist = Append(@, [length |-> st.length,
                                       title |-> st.title,
                                       url |-> StrObj(line)])]

\* An append that skips a url the playlist already holds.
append_item_Unique(st, line) ==
    IF \E k \in 1..Len(st.playlist) : st.playlist[k].url = StrObj(line)
    THEN [st EXCEPT !.length = NoneObj, !.title = NoneObj]
    ELSE [st EXCEPT !.playlist = Append(@, [length |-> st.length,
                                            title |-> st.title,
                                            url |-> StrObj(line)]),
                    !.length = NoneObj,
                    !.title = NoneObj]

\* Lines 229-232: the stripped line is a song path.
append_item(st, line) ==
    [st EXCEPT !.playlist = Append(@, [length |-> st.length,
                                       title |-> st.title,
                                       url |-> StrObj(line)]),
               !.length = NoneObj,
               !.title = NoneObj]

\* The body of the for loop over one line (lines 215-232), on the loop's
\* variables st = [playlist, length, title, error].
parse_m3u_line(st, raw) ==
    LET line == Strip(raw)
    IN  IF StartsWith(line, ExtinfMarker) THEN extinf_update(st, line)
        ELSE IF StartsWith(line, <<"#">>) THEN st
        ELSE IF Len(line) # 0 THEN append_item(st, line)
        ELSE st

M3UOff ==
    /\ m3u_pc = "off"
    /\ m3u_data = <<>>
    /\ m3u_lines = <<>>
    /\ m3u_i = 0
    /\ m3u_playlist = <<>>
    /\ m3u_length = NoneObj
    /\ m3u_title = NoneObj
    /\ m3u_error = "none"

InitM3U ==
    /\ m3u_pc = "fetch"
    /\ m3u_data \in Texts
    /\ m3u_lines = <<>>
    /\ m3u_i = 0
    /\ m3u_playlist = <<>>
    /\ m3u_length = NoneObj
    /\ m3u_title = NoneObj
    /\ m3u_error = "none"

\* _fetch_playlist returns m3u_data (line 203).
M3UFetch ==
    /\ m3u_pc = "fetch"
    /\ m3u_pc' = "split"
    /\ UNCHANGED <<m3u_data, m3u_lines, m3u_i, m3u_playlist, m3u_length,
                   m3u_title, m3u_error>>
    /\ UNCHANGED <<lvars, fvars, pvars>>

\* _fetch_playlist raises PlaylistError (timeout or client error).
M3UFetchFails ==
    /\ m3u_pc = "fetch"
    /\ m3u_pc' = "error"
    /\ m3u_error' = "PlaylistError: fetch"
    /\ UNCHANGED <<m3u_data, m3u_lines, m3u_i, m3u_playlist, m3u_length,
                   m3u_title>>
    /\ UNCHANGED <<lvars, fvars, pvars>>

\* Lines 205-212.
M3USplit ==
    /\ m3u_pc = "split"
    /\ m3u_lines' = SplitLines(m3u_data)
    /\ IF m3u_lines' = <<>>
       THEN /\ m3u_pc' = "error"
            /\ m3u_error' = "PlaylistError: Empty playlist"
            /\ m3u_i' = m3u_i
       ELSE /\ m3u_pc' = "loop"
            /\ m3u_error' = m3u_error
            /\ m3u_i' = 1
    /\ UNCHANGED <<m3u_data, m3u_playlist, m3u_length, m3u_title>>
    /\ UNCHANGED <<lvars, fvars, pvars>>

\* One iteration of the for loop (lines 214-232).
M3ULine ==
    /\ m3u_pc = "loop"
    /\ m3u_i <= Len(m3u_lines)
    /\ LET st == parse_m3u_line([playlist |-> m3u_playlist,
                                 length |-> m3u_length,
                                 title |-> m3u_title,
                                 error |-> "none"], m3u_lines[m3u_i])
       IN  /\ m3u_playlist' = st.playlist
           /\ m3u_length' = st.length
           /\ m3u_title' = st.title
           /\ m3u_error' = st.error
           /\ m3u_pc' = IF st.error = "none" THEN "loop" ELSE "error"
    /\ m3u_i' = m3u_i + 1
    /\ UNCHANGED <<m3u_data, m3u_lines>>
    /\ UNCHANGED <<lvars, fvars, pvars>>

\* return playlist (line 234).
M3UReturn ==
    /\ m3u_pc = "loop"
    /\ m3u_i > Len(m3u_lines)
    /\ m3u_pc' = "done"
    /\ UNCHANGED <<m3u_data, m3u_lines, m3u_i, m3u_playlist, m3u_length,
                   m3u_title, m3u_error>>
    /\ UNCHANGED <<lvars, fvars, pvars>>

NextM3U ==
    \/ M3UFetch
    \/ M3UFetchFails
    \/ M3USplit
    \/ M3ULine
    \/ M3UReturn

(***************************************************************************)
(* parse_pls.  The playlist file is given by what it holds: whether it is  *)
(* INI text at all, whether it has a [playlist] section, and the options   *)
(* of that section.  configparser.ConfigParser() lower-cases option names  *)
(* and applies BasicInterpolation to every value it hands out.             *)
(***************************************************************************)
\* File{n}, Title{n} and Length{n} are present in the file for n up to this.
PlsMaxIndex == 3

Digits == <<"0", "1", "2", "3", "4", "5", "6", "7", "8", "9">>

\* str(n) for n >= 0, as in f"File{entry}".
RECURSIVE IntStr(_)
IntStr(n) ==
    IF n < 10 THEN <<Digits[n + 1]>>
    ELSE IntStr(n \div 10) \o <<Digits[(n % 10) + 1]>>

IsDigit(c) == \E k \in 1..10 : Digits[k] = c

DigitVal(c) == (CHOOSE k \in 1..10 : Digits[k] = c) - 1

RECURSIVE DigitsVal(_)
DigitsVal(s) ==
    IF s = <<>> THEN 0
    ELSE 10 * DigitsVal(SubSeq(s, 1, Len(s) - 1)) + DigitVal(s[Len(s)])

\* int(s): [ok, val]; ok is FALSE where int() raises ValueError.
ParseInt(s) ==
    LET t == Strip(s)
        signed == t # <<>> /\ Head(t) \in {"+", "-"}
        body == IF signed THEN Tail(t) ELSE t
    IN  IF body # <<>> /\ \A k \in 1..Len(body) : IsDigit(body[k])
        THEN [ok |-> TRUE,
              val |-> IF signed /\ Head(t) = "-"
                      THEN 0 - DigitsVal(body) ELSE DigitsVal(body)]
        ELSE [ok |-> FALSE, val |-> 0]

UpperCase == <<"A", "B", "C", "D", "E", "F", "G", "H", "I", "J", "K", "L", "M",
               "N", "O", "P", "Q", "R", "S", "T", "U", "V", "W", "X", "Y", "Z">>

LowerCase == <<"a", "b", "c", "d", "e", "f", "g", "h", "i", "j", "k", "l", "m",
               "n", "o", "p", "q", "r", "s", "t", "u", "v", "w", "x", "y", "z">>

\* ConfigParser.optionxform: s.lower()
Lower(s) ==
    [i \in 1..Len(s) |->
        IF \E k \in 1..26 : UpperCase[k] = s[i]
        THEN LowerCase[CHOOSE k \in 1..26 : UpperCase[k] = s[i]]
        ELSE s[i]]

\* BasicInterpolation on a value: [ok, val]; "%%" gives "%", and any other
\* "%" makes the get raise an InterpolationError ("%(name)s" refers to an
\* option; no value of the model names one that exists).
RECURSIVE Interpolate(_)
Interpolate(s) ==
    IF s = <<>> THEN [ok |-> TRUE, val |-> <<>>]
    ELSE IF Head(s) # "%"
    THEN LET r == Interpolate(Tail(s))
         IN  [ok |-> r.ok, val |-> <<Head(s)>> \o r.val]
    ELSE IF Len(s) >= 2 /\ s[2] = "%"
    THEN LET r == Interpolate(SubSeq(s, 3, Len(s)))
         IN  [ok |-> r.ok, val |-> <<"%">> \o r.val]
    ELSE [ok |-> FALSE, val |-> <<>>]

\* An option of the file: absent, or set to a raw value.
Absent == [set |-> FALSE, raw |-> <<>>]
Opt(s) == [set |-> TRUE, raw |-> s]

\* _PLS_SECTION_PLAYLIST and the option names the parser asks for.
KeyVersion == <<"V", "e", "r", "s", "i", "o", "n">>
KeyNumberOfEntries ==
    <<"N", "u", "m", "b", "e", "r", "O", "f", "E", "n", "t", "r", "i", "e", "s">>
KeyFile(n) == <<"F", "i", "l", "e">> \o IntStr(n)
KeyTitle(n) == <<"T", "i", "t", "l", "e">> \o IntStr(n)
KeyLength(n) == <<"L", "e", "n", "g", "t", "h">> \o IntStr(n)

\* What the file may hold for entry n: nothing, File{n} alone, File{n} with
\* Title{n} and Length{n}, Title{n} without File{n}, a File{n} whose url has
\* a percent-escape.
EntryKinds == {"none", "file", "full", "title", "escaped"}

EntryFile(kind, n) ==
    CASE kind \in {"file", "full"} -> Opt(<<"u">> \o IntStr(n))
      [] kind = "escaped" -> Opt(<<"u", "%", "2", "0">> \o IntStr(n))
      [] OTHER -> Absent

EntryTitle(kind, n) ==
    IF kind \in {"full", "title"} THEN Opt(<<"t">> \o IntStr(n)) ELSE Absent

EntryLength(kind, n) ==
    IF kind = "full" THEN Opt(<<"6">> \o IntStr(n)) ELSE Absent

VersionValues == {Absent, Opt(<<"2">>), Opt(<<"1">>), Opt(<<"2", ".", "0">>)}

EntriesValues ==
    {Absent, Opt(<<"x">>), Opt(<<"-", "1">>)}
    \cup {Opt(IntStr(n)) : n \in 0..PlsMaxIndex}

\* The playlist files: text that is no INI text, INI text without a
\* [playlist] section, and [playlist] sections.
PlsFiles ==
    {[kind |-> k, version |-> Absent, entries |-> Absent,
      items |-> [n \in 1..PlsMaxIndex |-> "none"]] : k \in {"malformed", "nosection"}}
    \cup [kind : {"playlist"}, version : VersionValues, entries : EntriesValues,
          items : [1..PlsMaxIndex -> EntryKinds]]

\* pls_parser.read_string(pls_data, url): the [playlist] section as a map from
\* lower-cased option names to raw values.
read_string(file) ==
    [has |-> file.kind = "playlist",
     opts |->
        [key \in {Lower(KeyVersion), Lower(KeyNumberOfEntries)}
                 \cup {Lower(KeyFile(n)) : n \in 1..PlsMaxIndex}
                 \cup {Lower(KeyTitle(n)) : n \in 1..PlsMaxIndex}
                 \cup {Lower(KeyLength(n)) : n \in 1..PlsMaxIndex} |->
            IF key = Lower(KeyVersion) THEN file.version
            ELSE IF key = Lower(KeyNumberOfEntries) THEN file.entries
            ELSE LET n == CHOOSE m \in 1..PlsMaxIndex :
                             key \in {Lower(KeyFile(m)), Lower(KeyTitle(m)),
                                      Lower(KeyLength(m))}
                 IN  IF key = Lower(KeyFile(n)) THEN EntryFile(file.items[n], n)
                     ELSE IF key = Lower(KeyTitle(n))
                     THEN EntryTitle(file.items[n], n)
                     ELSE EntryLength(file.items[n], n)]]

\* The raw option of the section: Absent when the section does not have it.
RawOption(parser, key) ==
    IF Lower(key) \in DOMAIN parser.opts THEN parser.opts[Lower(key)] ELSE Absent

\* file_option in playlist_section
HasOption(parser, key) == RawOption(parser, key).set

\* playlist_section.get(key) and playlist_section[key] of an option that is
\* there: [error, obj]; None for an option that is not.
section_get(parser, key) ==
    LET o == RawOption(parser, key)
        v == Interpolate(o.raw)
    IN  IF ~o.set THEN [error |-> "none", obj |-> NoneObj]
        ELSE IF ~v.ok THEN [error |-> "InterpolationSyntaxError", obj |-> NoneObj]
        ELSE [error |-> "none", obj |-> StrObj(v.val)]

\* getint(key): [error, none, val].  The section proxy's getint returns None
\* for a missing option; the parser's raises NoOptionError.
getint(parser, key) ==
    LET g == section_get(parser, key)
        n == ParseInt(g.obj.val[1])
    IN  IF g.error # "none" THEN [error |-> g.error, none |-> FALSE, val |-> 0]
        ELSE IF g.obj = NoneObj THEN [error |-> "none", none |-> TRUE, val |-> 0]
        ELSE IF ~n.ok THEN [error |-> "ValueError", none |-> FALSE, val |-> 0]
        ELSE [error |-> "none", none |-> FALSE, val |-> n.val]

NoParser == [has |-> FALSE, opts |-> <<>>]

PLSOff ==
    /\ pls_pc = "off"
    /\ pls_file = [kind |-> "malformed", version |-> Absent, entries |-> Absent,
                   items |-> [n \in 1..PlsMaxIndex |-> "none"]]
    /\ pls_parser = NoParser
    /\ pls_num = 0
    /\ pls_entry = 0
    /\ pls_playlist = <<>>
    /\ pls_error = "none"

InitPLS ==
    /\ pls_pc = "fetch"
    /\ pls_file \in PlsFiles
    /\ pls_parser = NoParser
    /\ pls_num = 0
    /\ pls_entry = 0
    /\ pls_playlist = <<>>
    /\ pls_error = "none"

\* An exception ends parse_pls.
PlsRaise(e) ==
    /\ pls_pc' = "error"
    /\ pls_error' = e

\* _fetch_playlist returns the file (line 242).
PLSFetch ==
    /\ pls_pc = "fetch"
    /\ pls_pc' = "read"
    /\ UNCHANGED <<pls_file, pls_parser, pls_num, pls_entry, pls_playlist,
                   pls_error>>
    /\ UNCHANGED <<lvars, fvars, mvars>>

\* _fetch_playlist raises PlaylistError.
PLSFetchFails ==
    /\ pls_pc = "fetch"
    /\ PlsRaise("PlaylistError: fetch")
    /\ UNCHANGED <<pls_file, pls_parser, pls_num, pls_entry, pls_playlist>>
    /\ UNCHANGED <<lvars, fvars, mvars>>

\* Lines 244-248.
PLSRead ==
    /\ pls_pc = "read"
    /\ IF pls_file.kind = "malformed"
       THEN /\ PlsRaise("PlaylistError: Can't parse playlist")
            /\ pls_parser' = pls_parser
       ELSE /\ pls_pc' = "version"
            /\ pls_parser' = read_string(pls_file)
            /\ pls_error' = pls_error
    /\ UNCHANGED <<pls_file, pls_num, pls_entry, pls_playlist>>
    /\ UNCHANGED <<lvars, fvars, mvars>>

\* Lines 250-254: the exception the test of the section and of Version ends
\* with, "none" when it passes.
version_check(parser) ==
    LET v == getint(parser, KeyVersion)
    IN  IF ~parser.has THEN "PlaylistError: Invalid playlist"
        ELSE IF v.error # "none" THEN v.error
        ELSE IF v.none \/ v.val # 2 THEN "PlaylistError: Invalid playlist"
        ELSE "none"

PLSVersion ==
    /\ pls_pc = "version"
    /\ IF version_check(pls_parser) # "none"
       THEN PlsRaise(version_check(pls_parser))
       ELSE pls_pc' = "entries" /\ pls_error' = pls_error
    /\ UNCHANGED <<pls_file, pls_parser, pls_num, pls_entry, pls_playlist>>
    /\ UNCHANGED <<lvars, fvars, mvars>>

\* Lines 256-263.
PLSNumEntries ==
    /\ pls_pc = "entries"
    /\ LET n == getint(pls_parser, KeyNumberOfEntries)
       IN  IF n.none \/ n.error = "ValueError"
           THEN /\ PlsRaise("PlaylistError: Invalid NumberOfEntries")
                /\ UNCHANGED <<pls_num, pls_entry>>
           ELSE IF n.error # "none"
           THEN /\ PlsRaise(n.error)
                /\ UNCHANGED <<pls_num, pls_entry>>
           ELSE /\ pls_pc' = "loop"
                /\ pls_error' = pls_error
                /\ pls_num' = n.val
                /\ pls_entry' = 1
    /\ UNCHANGED <<pls_file, pls_parser, pls_playlist>>
    /\ UNCHANGED <<lvars, fvars, mvars>>

\* Lines 269-275: the item of an entry whose File option is there:
\* [error, item].
pls_item(parser, entry) ==
    LET length == section_get(parser, KeyLength(entry))
        title == section_get(parser, KeyTitle(entry))
        url == section_get(parser, KeyFile(entry))
    IN  [error |-> IF length.error # "none" THEN length.error
                   ELSE IF title.error # "none" THEN title.error
                   ELSE url.error,
         item |-> [length |-> length.obj, title |-> title.obj, url |-> url.obj]]

\* One iteration of the for loop (lines 264-275).
PLSEntry ==
    /\ pls_pc = "loop"
    /\ pls_entry <= pls_num
    /\ IF ~HasOption(pls_parser, KeyFile(pls_entry))
       THEN /\ pls_playlist' = pls_playlist
            /\ pls_pc' = pls_pc
            /\ pls_error' = pls_error
       ELSE LET it == pls_item(pls_parser, pls_entry)
            IN  IF it.error # "none"
                THEN /\ PlsRaise(it.error)
                     /\ pls_playlist' = pls_playlist
                ELSE /\ pls_playlist' = Append(pls_playlist, it.item)
                     /\ pls_pc' = pls_pc
                     /\ pls_error' = pls_error
    /\ pls_entry' = pls_entry + 1
    /\ UNCHANGED <<pls_file, pls_parser, pls_num>>
    /\ UNCHANGED <<lvars, fvars, mvars>>

\* return playlist (line 276).
PLSReturn ==
    /\ pls_pc = "loop"
    /\ pls_entry > pls_num
    /\ pls_pc' = "done"
    /\ UNCHANGED <<pls_file, pls_parser, pls_num, pls_entry, pls_playlist,
                   pls_error>>
    /\ UNCHANGED <<lvars, fvars, mvars>>

NextPLS ==
    \/ PLSFetch
    \/ PLSFetchFails
    \/ PLSRead
    \/ PLSVersion
    \/ PLSNumEntries
    \/ PLSEntry
    \/ PLSReturn

(***************************************************************************)
(* The specifications.                                                     *)
(***************************************************************************)
Init == InitListener /\ FillOff /\ M3UOff /\ PLSOff

Next == NextListener

Spec == Init /\ [][Next]_vars

FillInit == InitListener /\ InitFill /\ M3UOff /\ PLSOff

SpecFill == FillInit /\ [][NextFill]_vars

M3UInit == InitListener /\ FillOff /\ InitM3U /\ PLSOff

SpecM3U == M3UInit /\ [][NextM3U]_vars

PLSInit == InitListener /\ FillOff /\ M3UOff /\ InitPLS

SpecPLS == PLSInit /\ [][NextPLS]_vars

(***************************************************************************)
(* Properties of CastStatusListener (checked under Spec).                  *)
(***************************************************************************)
\* C1: no call reaches a logical device handle through a listener after
\* invalidate() has returned on that listener, also when the callback was
\* already in flight when invalidate() was called.
C1_NoForwardAfterInvalidate == ~last_call.afterInvalidate

\* C2: a callback that starts after invalidate() has returned on its listener
\* never goes on to call the device handle, makes no call on it, and returns
\* as dropped.
C2_LateCallbackDropped ==
    /\ \A l \in Listeners : cb[l].pc = "forward" => ~cb[l].late
    /\ ~last_call.late
    /\ last_return.late => last_return.result = "dropped"

\* A callback was delivered after invalidate() had returned, and was dropped,
\* on a listener whose device handle had been called before.
C2_Witness ==
    /\ last_return.late
    /\ last_return.result = "dropped"
    /\ last_call.listener = last_return.listener

\* C10: invalidate() undoes exactly the registration of __init__: called in
\* the state __init__ left the multizone manager in, it restores the state the
\* manager had before __init__, and it issues no deregistration for something
\* __init__ did not register.
C10_InvalidateReversesInit ==
    [][\A l \in Listeners :
         /\ (InvalidateDeregister(l) /\ <<groups, casts>> = mzAfter[l])
               => <<groups', casts'>> = mzBefore[l]
         /\ deregs'[l] \subseteq regs'[l]]_vars

(***************************************************************************)
(* Properties of fill_out_missing_chromecast_info (checked under SpecFill).*)
(***************************************************************************)
\* C3: with the answers of the external queries fixed, a second call on the
\* result of the first returns a descriptor equal to that result.
C3_FillOutIdempotent == fill_pc = "twice" => fill_r2.info = fill_r1.info

(***************************************************************************)
(* Properties of parse_m3u (checked under SpecM3U).                        *)
(***************************************************************************)
\* What the format says of a line '#EXTINF:<duration>[ <extra>],<title>'.
ExtinfRest(raw) ==
    SubSeq(Strip(raw), Len(ExtinfMarker) + 1, Len(Strip(raw)))

WellFormedExtinf(raw) ==
    StartsWith(Strip(raw), ExtinfMarker) /\ Find(ExtinfRest(raw), <<",">>) > 0

ExtinfDuration(raw) ==
    LET rest == ExtinfRest(raw)
        meta == SubSeq(rest, 1, Find(rest, <<",">>) - 1)
        sp == Find(meta, <<" ">>)
    IN  IF sp = 0 THEN meta ELSE SubSeq(meta, 1, sp - 1)

ExtinfTitle(raw) ==
    LET rest == ExtinfRest(raw)
    IN  Strip(SubSeq(rest, Find(rest, <<",">>) + 1, Len(rest)))

\* A line that is a media url: not blank and not starting with "#" once trimmed.
IsUrlLine(raw) == Strip(raw) # <<>> /\ Head(Strip(raw)) # "#"

\* The trimmed url lines among the lines given, in their order.
UrlsOf(lines) ==
    SelectSeq([i \in 1..Len(lines) |-> Strip(lines[i])],
              LAMBDA l : l # <<>> /\ Head(l) # "#")

\* The index of the k-th url line of the file.
KthUrlLine(k) ==
    LET U == {i \in 1..Len(m3u_lines) : IsUrlLine(m3u_lines[i])}
    IN  CHOOSE i \in U : Cardinality({j \in U : j <= i}) = k

\* C4: a well-formed #EXTINF line followed by a url line gives one item whose
\* length is the duration string alone, whose title is the trimmed title and
\* whose url is the url line.
C4_ExtinfLengthIsDuration ==
    (/\ m3u_pc = "done"
     /\ Len(m3u_lines) = 2
     /\ WellFormedExtinf(m3u_lines[1])
     /\ IsUrlLine(m3u_lines[2]))
    => m3u_playlist =
         <<[length |-> StrObj(ExtinfDuration(m3u_lines[1])),
            title |-> StrObj(ExtinfTitle(m3u_lines[1])),
            url |-> StrObj(Strip(m3u_lines[2]))]>>

\* C7: the pending length and title are unset right after a url line, and an
\* item whose url line has no well-formed #EXTINF line between it and the
\* url line before it (or the start of the file) has length None and title
\* None.
C7_MetadataUsedOnce ==
    m3u_pc \in {"loop", "done"} =>
      /\ (m3u_i > 1 /\ IsUrlLine(m3u_lines[m3u_i - 1]))
            => (m3u_length = NoneObj /\ m3u_title = NoneObj)
      /\ \A k \in 1..Len(m3u_playlist) :
            LET idx == KthUrlLine(k)
                prev == IF k = 1 THEN 0 ELSE KthUrlLine(k - 1)
            IN  (\A i \in (prev + 1)..(idx - 1) : ~WellFormedExtinf(m3u_lines[i]))
                   => /\ m3u_playlist[k].length = NoneObj
                      /\ m3u_playlist[k].title = NoneObj

\* Two url lines follow one well-formed #EXTINF line: the first item carries
\* its title, the second carries none.
C7_Witness ==
    /\ m3u_pc = "done"
    /\ Len(m3u_lines) = 3
    /\ WellFormedExtinf(m3u_lines[1])
    /\ IsUrlLine(m3u_lines[2])
    /\ IsUrlLine(m3u_lines[3])
    /\ m3u_playlist[1].title # NoneObj
    /\ m3u_playlist[2].title = NoneObj
    /\ m3u_playlist[2].length = NoneObj

\* C8: the urls of the items are the trimmed url lines read so far, in file
\* order and with duplicates; no other line gives an item.
C8_OneItemPerUrlLine ==
    m3u_pc \in {"loop", "done"} =>
      LET U == UrlsOf(SubSeq(m3u_lines, 1, m3u_i - 1))
      IN  /\ Len(m3u_playlist) = Len(U)
          /\ \A k \in 1..Len(m3u_playlist) : m3u_playlist[k].url = StrObj(U[k])

\* The same url twice, around a line that is no url: two items.
C8_Witness ==
    /\ m3u_pc = "done"
    /\ Len(m3u_lines) = 3
    /\ ~IsUrlLine(m3u_lines[2])
    /\ Len(m3u_playlist) = 2
    /\ m3u_playlist[1].url = m3u_playlist[2].url

\* C9: after a successful fetch parse_m3u ends with an exception exactly when
\* the text has no lines, the exception is the empty-playlist PlaylistError,
\* and the loop never runs past the lines.
C9_M3UFailsOnlyWhenEmpty ==
    (m3u_pc \in {"loop", "done", "error"} /\ m3u_error # "PlaylistError: fetch") =>
      /\ m3u_pc = "error" <=> Len(SplitLines(m3u_data)) = 0
      /\ m3u_pc = "error" => m3u_error = "PlaylistError: Empty playlist"
      /\ m3u_pc # "error" => m3u_error = "none"
      /\ m3u_i <= Len(m3u_lines) + 1

\* A text of comments, blank lines and a malformed #EXTINF line only: an empty
\* list is returned.
C9_Witness ==
    /\ m3u_pc = "done"
    /\ m3u_playlist = <<>>
    /\ \E i \in 1..Len(m3u_lines) : m3u_lines[i] = LineExtinfNoComma
    /\ \E i \in 1..Len(m3u_lines) : m3u_lines[i] = LineSpaces

(***************************************************************************)
(* Properties of parse_pls (checked under SpecPLS).                        *)
(***************************************************************************)
\* The object an option of the file gives: its text, or None when absent.
ObjOf(o) == IF o.set THEN StrObj(o.raw) ELSE NoneObj

\* The items the file describes for the entries 1..n, in ascending order.
RECURSIVE PlsExpected(_, _)
PlsExpected(file, n) ==
    IF n <= 0 THEN <<>>
    ELSE IF n > PlsMaxIndex \/ ~EntryFile(file.items[n], n).set
    THEN PlsExpected(file, n - 1)
    ELSE Append(PlsExpected(file, n - 1),
                [length |-> ObjOf(EntryLength(file.items[n], n)),
                 title |-> ObjOf(EntryTitle(file.items[n], n)),
                 url |-> ObjOf(EntryFile(file.items[n], n))])

\* The fetch succeeded and parse_pls has ended.
PlsEnded == pls_pc \in {"done", "error"} /\ pls_error # "PlaylistError: fetch"

\* C5: with a [playlist] section, Version 2 and an integer NumberOfEntries = N,
\* parse_pls returns one item for each n in 1..N whose File{n} is present, in
\* ascending order, with url File{n}, title Title{n} and length Length{n} (None
\* when absent); entries without File{n} are skipped and File{n} with n > N
\* gives no item.
C5_PlsItemsPerFile ==
    (/\ PlsEnded
     /\ pls_file.kind = "playlist"
     /\ pls_file.version = Opt(<<"2">>)
     /\ pls_file.entries.set
     /\ ParseInt(pls_file.entries.raw).ok)
    => /\ pls_pc = "done"
       /\ pls_playlist = PlsExpected(pls_file, ParseInt(pls_file.entries.raw).val)

\* C6: without a [playlist] section, or with a Version that is not 2 (another
\* integer, missing, or no integer), parse_pls goes no further than the version
\* test and ends with the PlaylistError "Invalid playlist", returning no item.
C6_PlsInvalidVersion ==
    (/\ pls_file.kind # "malformed"
     /\ pls_file.kind = "nosection" \/ pls_file.version # Opt(<<"2">>))
    => /\ pls_pc \notin {"entries", "loop", "done"}
       /\ PlsEnded => (/\ pls_error = "PlaylistError: Invalid playlist"
                       /\ pls_playlist = <<>>)

(***************************************************************************)
(* Claims about the listener's validity and the descriptor completion.     *)
(***************************************************************************)
\* C11: self._valid is a one-way flag.  Construction sets it; once the
\* listener exists the only step that changes it is the last step of
\* invalidate(), which clears it; no handler step, no construction of another
\* listener and no repeated invalidate() sets it again.
C11_ValidityOneWay ==
    [][\A l \in Listeners :
          /\ (l \notin made /\ l \in made') => valid'[l]
          /\ (l \in made /\ valid'[l] # valid[l])
                => (valid[l] /\ ~valid'[l] /\ InvalidateSetFlag(l))
          /\ (l \in made /\ ~valid[l]) => ~valid'[l]]_vars

\* invalidate() has returned twice on a listener and a callback that came
\* afterwards was dropped: the listener is still invalid.
C11_Witness ==
    \E l \in made :
        /\ ~valid[l]
        /\ inv[l].returned = 2
        /\ last_return.listener = l
        /\ last_return.result = "dropped"

\* C12: a call on a descriptor that is not an audio group returns a
\* descriptor with is_dynamic_group None and issues no group-status query.
\* Both calls of a behaviour are looked at: the one on the descriptor given
\* and the one on the first call's result.
C12_NonGroupNoGroupStatus ==
    /\ (fill_pc \in {"once", "twice"} /\ ~is_audio_group(fill_self))
          => /\ fill_r1.info.is_dynamic_group = PyNone
             /\ ~fill_r1.group_query
    /\ (fill_pc = "twice" /\ ~is_audio_group(fill_r1.info))
          => /\ fill_r2.info.is_dynamic_group = PyNone
             /\ ~fill_r2.group_query

\* A complete non-group descriptor was filled out while the device's uuid
\* was listed among the dynamic groups: the answer was not asked for.
C12_Witness ==
    /\ fill_pc = "once"
    /\ fill_self.cast_type \notin {PyNone, CAST_TYPE_GROUP}
    /\ fill_status.present
    /\ fill_self.uuid \in fill_status.dynamic_groups
    /\ fill_r1.info.is_dynamic_group = PyNone
    /\ ~fill_r1.group_query

\* C13: a call on an audio-group descriptor whose is_dynamic_group is known
\* (True or False) returns a descriptor with the same is_dynamic_group and
\* issues no group-status query.
C13_KnownGroupStatusKept ==
    (/\ fill_pc \in {"once", "twice"}
     /\ is_audio_group(fill_self)
     /\ fill_self.is_dynamic_group # PyNone)
    => /\ fill_r1.info.is_dynamic_group = fill_self.is_dynamic_group
       /\ ~fill_r1.group_query

\* C14: when a call issues the group-status query, the is_dynamic_group it
\* returns is True exactly when the answer is present and lists the
\* descriptor's uuid among its dynamic groups, and is False otherwise, in
\* particular when there is no answer; it is never None.
C14_GroupStatusFromAnswer ==
    /\ (fill_pc \in {"once", "twice"} /\ fill_r1.group_query)
          => /\ fill_r1.info.is_dynamic_group \in {PyTrue, PyFalse}
             /\ fill_r1.info.is_dynamic_group = PyTrue
                   <=> (/\ fill_status.present
                        /\ fill_self.uuid \in fill_status.dynamic_groups)
             /\ ~fill_status.present
                   => fill_r1.info.is_dynamic_group = PyFalse
    /\ (fill_pc = "twice" /\ fill_r2.group_query)
          => /\ fill_r2.info.is_dynamic_group \in {PyTrue, PyFalse}
             /\ fill_r2.info.is_dynamic_group = PyTrue
                   <=> (/\ fill_status.present
                        /\ fill_r1.info.uuid \in fill_status.dynamic_groups)
             /\ ~fill_status.present
                   => fill_r2.info.is_dynamic_group = PyFalse

\* The query ran for a group whose uuid is one of the dynamic groups listed.
C14_Witness ==
    /\ fill_pc = "once"
    /\ fill_r1.group_query
    /\ fill_status.present
    /\ fill_self.uuid \in fill_status.dynamic_groups
    /\ fill_r1.info.is_dynamic_group = PyTrue

\* C15: the group-status step works on the completed metadata: whenever a
\* call is made on a descriptor whose is_dynamic_group is None and the
\* descriptor returned is an audio group, the call has issued the
\* group-status query and the returned is_dynamic_group is not None.
C15_GroupStatusAfterCastType ==
    (/\ fill_pc \in {"once", "twice"}
     /\ fill_self.is_dynamic_group = PyNone
     /\ is_audio_group(fill_r1.info))
    => /\ fill_r1.group_query
       /\ fill_r1.info.is_dynamic_group # PyNone

(***************************************************************************)
(* Claims about construction.  mzBefore[l] and mzAfter[l] are the          *)
(* coordinator's two maps around __init__ of l; subs[l] is written by      *)
(* __init__ only.                                                          *)
(***************************************************************************)
\* __init__ of l added the connection as the member of its group.
AddedGroupMember(l) ==
    mzAfter[l][1] = [mzBefore[l][1] EXCEPT ![Uuid(cast_device[l])] = l]

\* __init__ of l added l to the per-UUID listener registry.
AddedListener(l) ==
    mzAfter[l][2] = [mzBefore[l][2] EXCEPT ![Uuid(cast_device[l])] = @ \cup {l}]

\* C16 as stated: construction for an audio-group device adds the group
\* member, subscribes to none of the three streams and leaves the per-UUID
\* registry alone; construction for a non-group device that is not
\* multizone-only subscribes to all three streams, registers the listener
\* under its uuid and adds no group member.
C16_InitByDeviceKind ==
    \A l \in made :
        /\ IsAudioGroup(cast_device[l])
              => /\ AddedGroupMember(l)
                 /\ subs[l] = {}
                 /\ mzAfter[l][2] = mzBefore[l][2]
        /\ (~IsAudioGroup(cast_device[l]) /\ ~mz_only[l])
              => /\ subs[l] = Streams
                 /\ AddedListener(l)
                 /\ mzAfter[l][1] = mzBefore[l][1]

\* C16 amended: as C16, except that construction for an audio-group device
\* subscribes to all three streams as well, unless it is multizone-only.
C16_InitByDeviceKindAmended ==
    \A l \in made :
        /\ IsAudioGroup(cast_device[l])
              => /\ AddedGroupMember(l)
                 /\ subs[l] = (IF mz_only[l] THEN {} ELSE Streams)
                 /\ mzAfter[l][2] = mzBefore[l][2]
        /\ (~IsAudioGroup(cast_device[l]) /\ ~mz_only[l])
              => /\ subs[l] = Streams
                 /\ AddedListener(l)
                 /\ mzAfter[l][1] = mzBefore[l][1]

\* A group listener and a standard listener, neither multizone-only, have
\* been constructed: both are subscribed, one is the group's member and the
\* other is in the registry.
C16_Witness ==
    \E g, m \in made :
        /\ IsAudioGroup(cast_device[g]) /\ ~mz_only[g]
        /\ ~IsAudioGroup(cast_device[m]) /\ ~mz_only[m]
        /\ subs[g] = Streams /\ subs[m] = Streams
        /\ mzAfter[g][1][Uuid(cast_device[g])] = g
        /\ m \in mzAfter[m][2][Uuid(cast_device[m])]

\* C17: construction in multizone-only mode subscribes to none of the three
\* streams and leaves the per-UUID registry as it was, for group and
\* non-group devices; the group-membership map changes only by the entry of
\* the listener's own group, and not at all for a non-group device.
C17_MzOnlyInit ==
    \A l \in made :
        mz_only[l]
        => /\ subs[l] = {}
           /\ mzAfter[l][2] = mzBefore[l][2]
           /\ IF IsAudioGroup(cast_device[l])
              THEN AddedGroupMember(l)
              ELSE mzAfter[l][1] = mzBefore[l][1]

\* Two multizone-only listeners exist, one for the group and one for the
\* standard device; only the first changed the coordinator.
C17_Witness ==
    \E g, m \in made :
        /\ mz_only[g] /\ IsAudioGroup(cast_device[g])
        /\ mz_only[m] /\ ~IsAudioGroup(cast_device[m])
        /\ mzAfter[g] # mzBefore[g]
        /\ mzAfter[m] = mzBefore[m]
        /\ subs[g] = {} /\ subs[m] = {}

(***************************************************************************)
(* Claims about the handlers.                                              *)
(***************************************************************************)
\* The step just taken left on listener l the call f(g, s) on the device
\* handle to be made, and made no call itself.
EntersForward(l, f, g, s) ==
    /\ cb'[l].pc = "forward"
    /\ cb'[l].fwd = f
    /\ cb'[l].group = g
    /\ cb'[l].status = s
    /\ ncalled' = ncalled
    /\ last_call' = last_call

\* C18: a handler entered on a valid listener goes on to one call on the
\* bound device handle: the handler of the same name with the arguments
\* received, and multizone_new_media_status(group_uuid, None) for
\* removed_from_multizone(group_uuid).  The call pending on a listener ends
\* only by being made, once, on the listener's own device handle and with
\* the name and arguments recorded; no other step makes a call.  (A handler
\* is entered only on a listener with no callback in flight, starts one more
\* call and touches no other listener's callback: the first premise names
\* these conditions of Handle, so that the handlers are evaluated only on the
\* steps that can be theirs.)
C18_ForwardsOnceUnchanged ==
    [][/\ \A l \in Listeners :
            /\ (/\ valid[l]
                /\ cb[l].pc = "idle"
                /\ ncalls' = ncalls + 1
                /\ \A k \in Listeners : k # l => cb'[k] = cb[k])
               => /\ \A s \in Statuses :
                     /\ new_cast_status(l, s)
                           => EntersForward(l, "new_cast_status", NoGroup, s)
                     /\ new_media_status(l, s)
                           => EntersForward(l, "new_media_status", NoGroup, s)
                     /\ new_connection_status(l, s)
                           => EntersForward(l, "new_connection_status",
                                            NoGroup, s)
                     /\ \A g \in GroupUuids :
                           multizone_new_media_status(l, g, s)
                           => EntersForward(l, "multizone_new_media_status",
                                            g, s)
                  /\ \A g \in GroupUuids :
                        removed_from_multizone(l, g)
                        => EntersForward(l, "multizone_new_media_status", g,
                                         NoStatus)
            /\ (cb[l].pc = "forward" /\ cb'[l] # cb[l])
                  => /\ cb'[l].pc = "idle"
                     /\ ncalled' = [ncalled EXCEPT ![cast_device[l]] = @ + 1]
                     /\ last_call'.listener = l
                     /\ last_call'.device = cast_device[l]
                     /\ last_call'.fwd = cb[l].fwd
                     /\ last_call'.group = cb[l].group
                     /\ last_call'.status = cb[l].status
       /\ (\A l \in Listeners : cb[l].pc = "forward" => cb'[l] = cb[l])
            => (ncalled' = ncalled /\ last_call' = last_call)]_vars

\* removed_from_multizone was handled by a valid listener: the one call its
\* device handle has received is multizone_new_media_status(group, None).
C18_Witness ==
    /\ last_call.listener \in made
    /\ last_call.fwd = "multizone_new_media_status"
    /\ last_call.group \in GroupUuids
    /\ last_call.status = NoStatus
    /\ ~last_call.afterInvalidate
    /\ last_call.device = cast_device[last_call.listener]
    /\ ncalled[last_call.device] = 1

(***************************************************************************)
(* Claims about invalidate() and the coordinator's maps.                   *)
(***************************************************************************)
\* C19: a repeated invalidate() leaves the coordinator as it finds it: when
\* invalidate() is called on a listener on which it has returned before, its
\* deregistration step changes neither the group-membership map nor the
\* per-UUID registry, whatever was constructed since the first call.
C19_SecondInvalidateKeepsMaps ==
    [][\A l \in Listeners :
          (inv[l].returned >= 1 /\ InvalidateDeregister(l))
          => (groups' = groups /\ casts' = casts)]_vars

\* C20: invalidate() on a listener removes nothing another listener
\* registered: every group membership and every per-UUID registration that
\* belongs to a different listener is still there after the deregistration
\* step, also when both listeners are for the same uuid.
C20_InvalidateKeepsOthers ==
    [][\A l \in Listeners :
          InvalidateDeregister(l)
          => \A k \in made \ {l} : \A u \in Devices :
                /\ groups[u] = k => groups'[u] = k
                /\ k \in casts[u] => k \in casts'[u]]_vars

====
